---- MODULE Spec2Model ----
(***************************************************************************)
(* scuffed-orm: the schema registry (PTSchema), its validation and its     *)
(* SQL / TypeScript generators.                                            *)
(*                                                                         *)
(* The repository holds two revisions of PTSchema that the specification   *)
(* draws on:                                                               *)
(*   _p2  src/unnamed/part_002: addTable checks the name, deduplicates the *)
(*        primary keys and validates; validation stops at the first        *)
(*        problem and throws.                                              *)
(*   _p1  src/unnamed/part_001: addTable only registers; validate()        *)
(*        collects every problem and the generators return it.             *)
(* Each revision is a specification of its own (Spec_p2, Spec_p1) over the *)
(* same registry variables.                                                *)
(***************************************************************************)
EXTENDS Integers, Sequences, FiniteSets, TLC

VARIABLES tables, extensions, customTypes, last

vars == <<tables, extensions, customTypes, last>>

\* Bound of the model: the number of tables a registry may hold.
MaxTables == 2

(***************************************************************************)
(* JavaScript values                                                       *)
(***************************************************************************)
undefined == [undefined |-> TRUE]

Range(s) == {s[i] : i \in DOMAIN s}

\* the distinct elements of s in the order of their last occurrences
RECURSIVE SetOf_lastOccurrence(_)
SetOf_lastOccurrence(s) ==
  IF s = <<>> THEN <<>>
  ELSE LET rest == SetOf_lastOccurrence(Tail(s))
       IN IF Head(s) \in Range(rest) THEN rest ELSE <<Head(s)>> \o rest

\* [...new Set(s)]: the distinct elements of s in first-occurrence order.
RECURSIVE SetOf(_)
SetOf(s) ==
  IF s = <<>> THEN <<>>
  ELSE LET front == SetOf(SubSeq(s, 1, Len(s) - 1))
           x == s[Len(s)]
       IN IF x \in Range(front) THEN front ELSE Append(front, x)

\* a copy of the list that is not reversed
reverse_inOrder(s) == s

\* [...s].reverse()
reverse(s) == [i \in 1..Len(s) |-> s[Len(s) + 1 - i]]

RECURSIVE Flatten(_)
Flatten(ss) == IF ss = <<>> THEN <<>> ELSE Head(ss) \o Flatten(Tail(ss))

(***************************************************************************)
(* util: strings are converted character by character.                     *)
(***************************************************************************)
LowerCase == <<"a","b","c","d","e","f","g","h","i","j","k","l","m",
               "n","o","p","q","r","s","t","u","v","w","x","y","z">>
UpperCase == <<"A","B","C","D","E","F","G","H","I","J","K","L","M",
               "N","O","P","Q","R","S","T","U","V","W","X","Y","Z">>
Digits == {"0","1","2","3","4","5","6","7","8","9"}

\* String.prototype.toUpperCase on one character
toUpperCase(c) ==
  IF \E i \in DOMAIN LowerCase : LowerCase[i] = c
  THEN UpperCase[CHOOSE i \in DOMAIN LowerCase : LowerCase[i] = c]
  ELSE c

\* the regular expression class \w
WordChar(c) == c \in Range(LowerCase) \cup Range(UpperCase) \cup Digits \cup {"_"}

\* toConvert.replace(/_(\w)/g, (_, firstLetter) => firstLetter.toUpperCase())
RECURSIVE toCamelCase(_)
toCamelCase(cs) ==
  IF cs = <<>> THEN <<>>
  ELSE IF cs[1] = "_" /\ Len(cs) >= 2 /\ WordChar(cs[2])
       THEN <<toUpperCase(cs[2])>> \o toCamelCase(SubSeq(cs, 3, Len(cs)))
       ELSE <<cs[1]>> \o toCamelCase(Tail(cs))

\* toConvert.charAt(0).toUpperCase() + toCamelCase(toConvert.slice(1))
toPascalCase(cs) ==
  IF cs = <<>> THEN <<>>
  ELSE <<toUpperCase(cs[1])>> \o toCamelCase(Tail(cs))

\* The characters of the identifiers the model uses.
Chars(s) ==
  CASE s = "id" -> <<"i","d">>
    [] s = "ref_id" -> <<"r","e","f","_","i","d">>
    [] s = "the_level" -> <<"t","h","e","_","l","e","v","e","l">>
    [] s = "note" -> <<"n","o","t","e">>
    [] s = "level" -> <<"l","e","v","e","l">>
    [] s = "order_state" -> <<"o","r","d","e","r","_","s","t","a","t","e">>
    [] s = "high" -> <<"h","i","g","h">>
    [] s = "med" -> <<"m","e","d">>
    [] s = "low" -> <<"l","o","w">>
    [] s = "zz" -> <<"z","z">>

RECURSIVE Str(_)
Str(cs) == IF cs = <<>> THEN "" ELSE cs[1] \o Str(Tail(cs))

\* a line that holds nothing
blank == [line |-> "blank"]

newlinePad(toPad) == IF Len(toPad) > 0 THEN toPad \o <<blank>> ELSE <<>>

(***************************************************************************)
(* psql_types: the value types.  ref is the identity of the JavaScript     *)
(* object: the scalar types are module constants (one object each), while  *)
(* every call of VarChar, Char or Enum builds a new object.                *)
(***************************************************************************)
UUID == [ref |-> 1, key |-> "UUID", sqlName |-> "UUID", typeScriptName |-> "string"]

Integer == [ref |-> 2, key |-> "Integer", sqlName |-> "INTEGER", typeScriptName |-> "number"]

VarChar(ref, length) ==
  [ref |-> ref, key |-> "VarChar", sqlName |-> "VARCHAR(" \o ToString(length) \o ")",
   typeScriptName |-> "string", length |-> length]

Char(ref, length) ==
  [ref |-> ref, key |-> "Char", sqlName |-> "CHAR(" \o ToString(length) \o ")",
   typeScriptName |-> "string", length |-> length]

Enum(ref, name, values) ==
  [ref |-> ref, key |-> "UserDefinedType", sqlName |-> name,
   typeScriptName |-> Str(toPascalCase(Chars(name))), values |-> SetOf(values)]

(***************************************************************************)
(* Schema entities.  An object keyed by name (Table.columns, the           *)
(* foreignKeys of part_002, constraints, customTypes) is the sequence of   *)
(* its entries in insertion order, with pairwise different keys.  An       *)
(* optional property that is absent is a field the record does not have.   *)
(***************************************************************************)
has(obj, field) == field \in DOMAIN obj

\* table.columns[name]
columnOf(table, name) ==
  IF \E i \in DOMAIN table.columns : table.columns[i].name = name
  THEN table.columns[CHOOSE i \in DOMAIN table.columns : table.columns[i].name = name]
  ELSE undefined

columnExists(table, name) == columnOf(table, name) # undefined

\* a lookup without the filter on the declaring table's name
foreignTableOf_anyTable(tabs, table, fTable, fCol) ==
  LET hits == {i \in DOMAIN tabs : /\ tabs[i].name = fTable
                                   /\ columnExists(tabs[i], fCol)}
  IN IF hits = {} THEN undefined
     ELSE tabs[CHOOSE i \in hits : \A j \in hits : i <= j]

\* a lookup that knows only the tables added before `table`
foreignTableOf_declaredBefore(tabs, table, fTable, fCol) ==
  LET hits == {i \in DOMAIN tabs : /\ tabs[i].name # table.name
                                   /\ tabs[i].name = fTable
                                   /\ columnExists(tabs[i], fCol)
                                   /\ \E j \in DOMAIN tabs : tabs[j].name = table.name /\ i < j}
  IN IF hits = {} THEN undefined
     ELSE tabs[CHOOSE i \in hits : \A j \in hits : i <= j]

\* this.tables.filter(pred-on-name).find(...): the first table other than
\* `table` that is named fTable and defines column fCol.
foreignTableOf(tabs, table, fTable, fCol) ==
  LET hits == {i \in DOMAIN tabs : /\ tabs[i].name # table.name
                                   /\ tabs[i].name = fTable
                                   /\ columnExists(tabs[i], fCol)}
  IN IF hits = {} THEN undefined
     ELSE tabs[CHOOSE i \in hits : \A j \in hits : i <= j]

\* an assignment that adds an entry even when the key has one
put_append(entries, key, value) == Append(entries, [key |-> key, value |-> value])

\* obj[key] = value on an object held as its entries
put(entries, key, value) ==
  IF \E i \in DOMAIN entries : entries[i].key = key
  THEN [i \in DOMAIN entries |->
          IF entries[i].key = key THEN [key |-> key, value |-> value] ELSE entries[i]]
  ELSE Append(entries, [key |-> key, value |-> value])

\* a registration without the filter on the key of the type
RECURSIVE registerCustomTypes_anyType(_, _)
registerCustomTypes_anyType(types, cols) ==
  IF cols = <<>> THEN types
  ELSE registerCustomTypes_anyType(put(types, Head(cols).type.sqlName, Head(cols).type),
                                   Tail(cols))

\* Object.entries(table.columns).filter(UserDefinedType)
\*   .forEach(([, col]) => (this.customTypes[col.type.sqlName] = col.type))
RECURSIVE registerCustomTypes(_, _)
registerCustomTypes(types, cols) ==
  IF cols = <<>> THEN types
  ELSE registerCustomTypes(
         IF Head(cols).type.key = "UserDefinedType"
         THEN put(types, Head(cols).type.sqlName, Head(cols).type)
         ELSE types,
         Tail(cols))

(***************************************************************************)
(* The messages of the errors, by the text that builds them; the fields    *)
(* are the values the text interpolates.                                   *)
(***************************************************************************)
TableAlreadyExists(name) == [code |-> "TableAlreadyExists", table |-> name]
DuplicateColumn(name, table) == [code |-> "DuplicateColumn", column |-> name, table |-> table]
NoPrimaryKey(table) == [code |-> "NoPrimaryKey", table |-> table]
MissingPrimaryKeyColumn(table, key) ==
  [code |-> "MissingPrimaryKeyColumn", table |-> table, column |-> key]
LocalColumnNotFound(local, table) ==
  [code |-> "LocalColumnNotFound", column |-> local, table |-> table]
DuplicateForeignKey(local, table) ==
  [code |-> "DuplicateForeignKey", column |-> local, table |-> table]
NoForeignTable(fTable, fCol) ==
  [code |-> "NoForeignTable", foreignTable |-> fTable, foreignColumn |-> fCol]
TypeMismatch_p2(col, table) == [code |-> "TypeMismatch", column |-> col, table |-> table]
TypeMismatch_p1(local, table, foreign, fTable) ==
  [code |-> "TypeMismatch", column |-> local, table |-> table,
   foreignColumn |-> foreign, foreignTable |-> fTable]
ErrorWhileValidating(table, err) ==
  [code |-> "ErrorWhileValidating", table |-> table, cause |-> err]

(***************************************************************************)
(* part_002: validate(table) returns the first problem or undefined.       *)
(***************************************************************************)
\* for (const name of Object.keys(table.columns)) ... return `Duplicate column`
RECURSIVE duplicateColumn(_, _, _)
duplicateColumn(table, i, columns) ==
  IF i > Len(table.columns) THEN undefined
  ELSE IF table.columns[i].name \in columns
       THEN DuplicateColumn(table.columns[i].name, table.name)
       ELSE duplicateColumn(table, i + 1, columns \cup {table.columns[i].name})

\* for (const key of table.primaryKeys) ... return `is missing column`
RECURSIVE missingPrimaryKey_p2(_, _)
missingPrimaryKey_p2(table, i) ==
  IF i > Len(table.primaryKeys) THEN undefined
  ELSE IF ~columnExists(table, table.primaryKeys[i])
       THEN MissingPrimaryKeyColumn(table.name, table.primaryKeys[i])
       ELSE missingPrimaryKey_p2(table, i + 1)

\* foreignTable.columns[key.column]?.type !== localCol.type: the two columns
\* do not hold the same object.
typeDiffers_p2(foreignType, localType) == foreignType.ref # localType.ref

\* for (const [col, key] of Object.entries(table.foreignKeys)) ...
RECURSIVE foreignKeys_p2(_, _, _, _)
foreignKeys_p2(tabs, table, i, fKeys) ==
  IF i > Len(table.foreignKeys) THEN undefined
  ELSE LET col == table.foreignKeys[i].col
           key == table.foreignKeys[i]
           localCol == columnOf(table, col)
           foreignTable == foreignTableOf(tabs, table, key.table, key.column)
       IN IF localCol = undefined THEN LocalColumnNotFound(col, table.name)
          ELSE IF col \in fKeys THEN DuplicateForeignKey(col, table.name)
          ELSE IF foreignTable = undefined THEN NoForeignTable(key.table, key.column)
          ELSE IF typeDiffers_p2(columnOf(foreignTable, key.column).type, localCol.type)
               THEN TypeMismatch_p2(col, table.name)
          ELSE foreignKeys_p2(tabs, table, i + 1, fKeys \cup {col})

\* validate that checks the foreign keys but not the primary-key list
validate_p2_noKeyCheck(tabs, table) ==
  IF duplicateColumn(table, 1, {}) # undefined THEN duplicateColumn(table, 1, {})
  ELSE IF missingPrimaryKey_p2(table, 1) # undefined THEN missingPrimaryKey_p2(table, 1)
  ELSE IF has(table, "foreignKeys") THEN foreignKeys_p2(tabs, table, 1, {})
  ELSE undefined

validate_p2(tabs, table) ==
  IF duplicateColumn(table, 1, {}) # undefined THEN duplicateColumn(table, 1, {})
  ELSE IF Len(table.primaryKeys) = 0 THEN NoPrimaryKey(table.name)
  ELSE IF missingPrimaryKey_p2(table, 1) # undefined THEN missingPrimaryKey_p2(table, 1)
  ELSE IF has(table, "foreignKeys") THEN foreignKeys_p2(tabs, table, 1, {})
  ELSE undefined

\* validateAll() that validates every table but does not compare the names
RECURSIVE validateAll_p2_noNameCheck(_, _, _)
validateAll_p2_noNameCheck(tabs, i, seen) ==
  IF i > Len(tabs) THEN undefined
  ELSE IF validate_p2(tabs, tabs[i]) # undefined
       THEN ErrorWhileValidating(tabs[i].name, validate_p2(tabs, tabs[i]))
  ELSE validateAll_p2_noNameCheck(tabs, i + 1, seen \cup {tabs[i].name})

\* validateAll(): throws on the first repeated name or invalid table.
RECURSIVE validateAll_p2(_, _, _)
validateAll_p2(tabs, i, seen) ==
  IF i > Len(tabs) THEN undefined
  ELSE IF tabs[i].name \in seen THEN TableAlreadyExists(tabs[i].name)
  ELSE IF validate_p2(tabs, tabs[i]) # undefined
       THEN ErrorWhileValidating(tabs[i].name, validate_p2(tabs, tabs[i]))
  ELSE validateAll_p2(tabs, i + 1, seen \cup {tabs[i].name})

(***************************************************************************)
(* part_001: validateTable(table) collects the problems of a table, and    *)
(* validate() those of the schema.                                         *)
(***************************************************************************)
\* a loop that looks at the first primary-key name only
RECURSIVE missingPrimaryKeys_p1_firstKeyOnly(_, _)
missingPrimaryKeys_p1_firstKeyOnly(table, i) ==
  IF i > Len(table.primaryKeys) \/ i > 1 THEN <<>>
  ELSE (IF ~columnExists(table, table.primaryKeys[i])
        THEN <<MissingPrimaryKeyColumn(table.name, table.primaryKeys[i])>>
        ELSE <<>>) \o missingPrimaryKeys_p1_firstKeyOnly(table, i + 1)

\* for (const key of table.primaryKeys) ... errors.push(`is missing column`)
RECURSIVE missingPrimaryKeys_p1(_, _)
missingPrimaryKeys_p1(table, i) ==
  IF i > Len(table.primaryKeys) THEN <<>>
  ELSE (IF ~columnExists(table, table.primaryKeys[i])
        THEN <<MissingPrimaryKeyColumn(table.name, table.primaryKeys[i])>>
        ELSE <<>>) \o missingPrimaryKeys_p1(table, i + 1)

\* for (const name of Object.keys(table.columns)) ... errors.push(`Duplicate column`)
RECURSIVE duplicateColumns_p1(_, _, _)
duplicateColumns_p1(table, i, columns) ==
  IF i > Len(table.columns) THEN <<>>
  ELSE (IF table.columns[i].name \in columns
        THEN <<DuplicateColumn(table.columns[i].name, table.name)>>
        ELSE <<>>) \o duplicateColumns_p1(table, i + 1, columns \cup {table.columns[i].name})

\* a comparison that takes the values of an enumeration as a list, in order
deepStrictEqual_orderedValues(a, b) ==
  /\ DOMAIN a = DOMAIN b
  /\ \A f \in DOMAIN a \ {"ref"} : a[f] = b[f]

\* a comparison of the objects themselves (the !== of part_002)
deepStrictEqual_byReference(a, b) == a.ref = b.ref

\* a comparison of the kind alone, without the parameters
deepStrictEqual_keyOnly(a, b) == a.key = b.key

\* assert.deepStrictEqual(a, b) does not throw: the same own properties with
\* equal values, the items of a Set compared without their order.
deepStrictEqual(a, b) ==
  /\ DOMAIN a = DOMAIN b
  /\ \A f \in DOMAIN a \ {"ref", "values"} : a[f] = b[f]
  /\ has(a, "values") => Range(a.values) = Range(b.values)

\* table.foreignKeys.forEach(fKey => fKey.columns.forEach(({local, foreign}) => ...)):
\* the column pairs of all foreign keys in the order they are visited.
columnPairs(table) ==
  Flatten([k \in DOMAIN table.foreignKeys |->
             [j \in DOMAIN table.foreignKeys[k].columns |->
                [table |-> table.foreignKeys[k].table,
                 local |-> table.foreignKeys[k].columns[j].local,
                 foreign |-> table.foreignKeys[k].columns[j].foreign]]])

\* the inner forEach without localColsSeen.add(local): no local column is
\* ever remembered
RECURSIVE foreignKeys_p1_neverSeen(_, _, _, _, _)
foreignKeys_p1_neverSeen(tabs, table, pairs, i, localColsSeen) ==
  IF i > Len(pairs) THEN <<>>
  ELSE LET local == pairs[i].local
           foreign == pairs[i].foreign
           localCol == columnOf(table, local)
           foreignTable == foreignTableOf(tabs, table, pairs[i].table, foreign)
       IN (IF localCol = undefined
           THEN <<LocalColumnNotFound(local, table.name)>>
           ELSE IF local \in localColsSeen
           THEN <<DuplicateForeignKey(local, table.name)>>
           ELSE IF foreignTable = undefined
           THEN <<NoForeignTable(pairs[i].table, foreign)>>
           ELSE IF ~deepStrictEqual(columnOf(foreignTable, foreign).type, localCol.type)
           THEN <<TypeMismatch_p1(local, table.name, foreign, foreignTable.name)>>
           ELSE <<>>)
          \o foreignKeys_p1_neverSeen(tabs, table, pairs, i + 1, localColsSeen)

\* the body of the inner forEach, over the pairs from the i-th on
RECURSIVE foreignKeys_p1(_, _, _, _, _)
foreignKeys_p1(tabs, table, pairs, i, localColsSeen) ==
  IF i > Len(pairs) THEN <<>>
  ELSE LET local == pairs[i].local
           foreign == pairs[i].foreign
           localCol == columnOf(table, local)
           foreignTable == foreignTableOf(tabs, table, pairs[i].table, foreign)
       IN IF localCol = undefined
          THEN <<LocalColumnNotFound(local, table.name)>>
               \o foreignKeys_p1(tabs, table, pairs, i + 1, localColsSeen)
          ELSE IF local \in localColsSeen
          THEN <<DuplicateForeignKey(local, table.name)>>
               \o foreignKeys_p1(tabs, table, pairs, i + 1, localColsSeen)
          ELSE IF foreignTable = undefined
          THEN <<NoForeignTable(pairs[i].table, foreign)>>
               \o foreignKeys_p1(tabs, table, pairs, i + 1, localColsSeen \cup {local})
          ELSE (IF ~deepStrictEqual(columnOf(foreignTable, foreign).type, localCol.type)
                THEN <<TypeMismatch_p1(local, table.name, foreign, foreignTable.name)>>
                ELSE <<>>)
               \o foreignKeys_p1(tabs, table, pairs, i + 1, localColsSeen \cup {local})

\* validateTable that returns after the first problem (the validate of part_002)
validateTable_p1_firstOnly(tabs, table) ==
  LET all == duplicateColumns_p1(table, 1, {})
             \o (IF Len(table.primaryKeys) = 0 THEN <<NoPrimaryKey(table.name)>> ELSE <<>>)
             \o missingPrimaryKeys_p1(table, 1)
             \o (IF has(table, "foreignKeys")
                 THEN foreignKeys_p1(tabs, table, columnPairs(table), 1, {})
                 ELSE <<>>)
  IN IF Len(all) = 0 THEN <<>> ELSE <<all[1]>>

validateTable_p1(tabs, table) ==
  duplicateColumns_p1(table, 1, {})
  \o (IF Len(table.primaryKeys) = 0 THEN <<NoPrimaryKey(table.name)>> ELSE <<>>)
  \o missingPrimaryKeys_p1(table, 1)
  \o (IF has(table, "foreignKeys")
      THEN foreignKeys_p1(tabs, table, columnPairs(table), 1, {})
      ELSE <<>>)

\* this.tables.forEach(table => ...) of validate(), from the i-th table on
RECURSIVE validateTables_p1(_, _, _, _)
validateTables_p1(tabs, i, seenTables, results) ==
  IF i > Len(tabs) THEN results
  ELSE IF tabs[i].name \in seenTables
  THEN validateTables_p1(tabs, i + 1, seenTables,
         [results EXCEPT !.errors = Append(@, TableAlreadyExists(tabs[i].name))])
  ELSE validateTables_p1(tabs, i + 1, seenTables \cup {tabs[i].name},
         IF Len(validateTable_p1(tabs, tabs[i])) > 0
         THEN [results EXCEPT !.perTableErrors =
                 put(@, tabs[i].name, validateTable_p1(tabs, tabs[i]))]
         ELSE results)

\* validate() that keeps the entry of the first invalid table only (the
\* validateAll of part_002 stops there)
validate_p1_firstInvalidOnly(tabs) ==
  LET results == validateTables_p1(tabs, 1, {}, [errors |-> <<>>, perTableErrors |-> <<>>])
  IN IF Len(results.errors) > 0 \/ Len(results.perTableErrors) > 0
     THEN [results EXCEPT !.perTableErrors =
             IF Len(@) = 0 THEN <<>> ELSE <<@[1]>>]
     ELSE undefined

validate_p1(tabs) ==
  LET results == validateTables_p1(tabs, 1, {}, [errors |-> <<>>, perTableErrors |-> <<>>])
  IN IF Len(results.errors) > 0 \/ Len(results.perTableErrors) > 0
     THEN results
     ELSE undefined

(***************************************************************************)
(* Generated text.  A text is the sequence of its lines, a line the record *)
(* of the statement it holds; join("\n\n") puts a blank line between two   *)
(* items.                                                                  *)
(***************************************************************************)
\* items.join("\n\n"), every item a sequence of lines
RECURSIVE joinBlank(_)
joinBlank(items) ==
  IF items = <<>> THEN <<>>
  ELSE IF Len(items) = 1 THEN items[1]
  ELSE items[1] \o <<blank>> \o joinBlank(Tail(items))

\* items.join("\n") inside `${a}\n${b}`: an empty join is an empty line
linesOf(items) == IF items = <<>> THEN <<blank>> ELSE items

NotCustomType == [code |-> "NotCustomType"]

\* sqlAutoGenNotice / tsAutoGenNotice
autoGenNotice(begin) == <<[line |-> "notice", begin |-> begin]>>

\* a genSQLType that takes an enumeration without values for no custom type
genSQLType_needsValues(customType) ==
  IF has(customType, "values") /\ Len(customType.values) > 0
  THEN [line |-> "CREATE TYPE", name |-> customType.sqlName,
        values |-> [i \in DOMAIN customType.values |->
                      [quote |-> "'", text |-> customType.values[i]]]]
  ELSE NotCustomType

\* genSQLType(customType)
genSQLType(customType) ==
  IF has(customType, "values")
  THEN [line |-> "CREATE TYPE", name |-> customType.sqlName,
        values |-> [i \in DOMAIN customType.values |->
                      [quote |-> "'", text |-> customType.values[i]]]]
  ELSE NotCustomType

\* genTypeScriptType(customType) of part_001: the values array and its type
genTypeScriptType_p1(customType) ==
  IF has(customType, "values")
  THEN <<[line |-> "export const", name |-> customType.typeScriptName \o "Values",
          values |-> [i \in DOMAIN customType.values |->
                        [quote |-> "\"", text |-> customType.values[i]]]],
         [line |-> "export type", name |-> customType.typeScriptName,
          typeOf |-> customType.typeScriptName \o "Values"]>>
  ELSE <<NotCustomType>>

\* a default part that writes every value as it is
defaultString_p1_unquoted(column) ==
  IF has(column, "default")
  THEN [quote |-> "", text |-> column.default.value.text]
  ELSE [quote |-> "", text |-> ""]

\* the default part of a column line of part_001
defaultString_p1(column) ==
  IF has(column, "default")
  THEN IF column.default.type = "value"
       THEN IF column.default.value.typeof = "string"
            THEN [quote |-> "\"", text |-> column.default.value.text]
            ELSE [quote |-> "", text |-> column.default.value.text]
       ELSE [quote |-> "", text |-> column.default.value.text]
  ELSE [quote |-> "", text |-> ""]

columnLine_p1(column) ==
  [name |-> column.name, sqlName |-> column.type.sqlName,
   notNull |-> ~(has(column, "nullable") /\ column.nullable),
   hasDefault |-> has(column, "default"),
   default |-> defaultString_p1(column)]

\* a clause that leaves an undeclared action empty
foreignKeyClause_p1_declaredOnly(fKey) ==
  [locals |-> [j \in DOMAIN fKey.columns |-> fKey.columns[j].local],
   references |-> fKey.table,
   foreigns |-> [j \in DOMAIN fKey.columns |-> fKey.columns[j].foreign],
   onDelete |-> IF has(fKey, "onDelete") THEN fKey.onDelete ELSE "",
   onUpdate |-> IF has(fKey, "onUpdate") THEN fKey.onUpdate ELSE ""]

\* FOREIGN KEY (locals) REFERENCES table (foreigns) ON DELETE .. ON UPDATE ..
foreignKeyClause_p1(fKey) ==
  [locals |-> [j \in DOMAIN fKey.columns |-> fKey.columns[j].local],
   references |-> fKey.table,
   foreigns |-> [j \in DOMAIN fKey.columns |-> fKey.columns[j].foreign],
   onDelete |-> IF has(fKey, "onDelete") THEN fKey.onDelete ELSE "NO ACTION",
   onUpdate |-> IF has(fKey, "onUpdate") THEN fKey.onUpdate ELSE "NO ACTION"]

\* one CREATE TABLE statement of part_001
tableDef_p1(table) ==
  [line |-> "CREATE TABLE", ifNotExists |-> FALSE, name |-> table.name,
   columns |-> [i \in DOMAIN table.columns |-> columnLine_p1(table.columns[i])],
   primaryKey |-> table.primaryKeys,
   foreignKeys |-> IF has(table, "foreignKeys") /\ Len(table.foreignKeys) > 0
                   THEN [k \in DOMAIN table.foreignKeys |->
                           foreignKeyClause_p1(table.foreignKeys[k])]
                   ELSE <<>>,
   constraints |-> IF has(table, "constraints") /\ Len(table.constraints) > 0
                   THEN [k \in DOMAIN table.constraints |->
                           [name |-> table.constraints[k].key,
                            check |-> table.constraints[k].value]]
                   ELSE <<>>]

\* generateSQLSchema that renders without validating
generateSQLSchema_p1_unvalidated(tabs, exts, types) ==
  LET extensionLines == [i \in DOMAIN exts |->
                           [line |-> "CREATE EXTENSION IF NOT EXISTS", name |-> exts[i]]]
      typeDefs == [i \in DOMAIN types |-> genSQLType(types[i].value)]
      tableDefs == joinBlank([i \in DOMAIN tabs |-> <<tableDef_p1(tabs[i])>>])
  IN [returns |-> "string",
      value |-> autoGenNotice(TRUE) \o newlinePad(extensionLines)
                \o newlinePad(typeDefs) \o tableDefs \o autoGenNotice(FALSE)]

\* generateSQLSchema() of part_001
generateSQLSchema_p1(tabs, exts, types) ==
  LET errors == validate_p1(tabs)
      extensionLines == [i \in DOMAIN exts |->
                           [line |-> "CREATE EXTENSION IF NOT EXISTS", name |-> exts[i]]]
      typeDefs == [i \in DOMAIN types |-> genSQLType(types[i].value)]
      tableDefs == joinBlank([i \in DOMAIN tabs |-> <<tableDef_p1(tabs[i])>>])
  IN IF errors # undefined THEN [returns |-> "errors", value |-> errors]
     ELSE IF NotCustomType \in Range(typeDefs)
     THEN [returns |-> "throw", value |-> NotCustomType]
     ELSE [returns |-> "string",
           value |-> autoGenNotice(TRUE) \o newlinePad(extensionLines)
                     \o newlinePad(typeDefs) \o tableDefs \o autoGenNotice(FALSE)]

\* Object.values(table.columns).filter(first use of the type name): the
\* columns of one table that declare a type, and the names seen after it
RECURSIVE firstUses(_, _)
firstUses(cols, seenTypes) ==
  IF cols = <<>> THEN [kept |-> <<>>, seen |-> seenTypes]
  ELSE IF Head(cols).type.key = "UserDefinedType" /\ Head(cols).type.sqlName \notin seenTypes
       THEN LET rest == firstUses(Tail(cols), seenTypes \cup {Head(cols).type.sqlName})
            IN [kept |-> <<Head(cols)>> \o rest.kept, seen |-> rest.seen]
       ELSE firstUses(Tail(cols), seenTypes)

\* this.tables.map(table => ...).filter(t => t.length > 0) of part_001
RECURSIVE customTypeDefs_p1(_, _)
customTypeDefs_p1(tabs, seenTypes) ==
  IF tabs = <<>> THEN <<>>
  ELSE LET uses == firstUses(Head(tabs).columns, seenTypes)
           defs == joinBlank([i \in DOMAIN uses.kept |->
                                genTypeScriptType_p1(uses.kept[i].type)])
       IN (IF Len(defs) > 0 THEN <<defs>> ELSE <<>>)
          \o customTypeDefs_p1(Tail(tabs), uses.seen)

\* a field line without a mark for a nullable column (the field line of
\* part_002)
fieldLine_p1_unmarked(column) ==
  [name |-> Str(toCamelCase(Chars(column.name))),
   separator |-> ": ",
   typeName |-> column.type.typeScriptName,
   nullable |-> ""]

\* `${indent}${fieldName}: ${typeName}${nullable};`
fieldLine_p1(column) ==
  [name |-> Str(toCamelCase(Chars(column.name))),
   separator |-> ": ",
   typeName |-> column.type.typeScriptName,
   nullable |-> IF has(column, "nullable") /\ column.nullable THEN " | null" ELSE ""]

\* a type definition that lists the fields from the last column to the first
tableTypeDef_p1_lastFirst(table) ==
  [line |-> "export type", name |-> table.typeName,
   fields |-> reverse([i \in DOMAIN table.columns |-> fieldLine_p1(table.columns[i])])]

\* export type ${table.typeName} = { one field per column }
tableTypeDef_p1(table) ==
  [line |-> "export type", name |-> table.typeName,
   fields |-> [i \in DOMAIN table.columns |-> fieldLine_p1(table.columns[i])]]

\* generateTypeScript() of part_001
generateTypeScript_p1(tabs) ==
  LET errors == validate_p1(tabs)
      customTypeDefs == joinBlank(customTypeDefs_p1(tabs, {}))
      tableTypeDefs == joinBlank([i \in DOMAIN tabs |-> <<tableTypeDef_p1(tabs[i])>>])
  IN IF errors # undefined THEN [returns |-> "errors", value |-> errors]
     ELSE IF NotCustomType \in Range(customTypeDefs)
     THEN [returns |-> "throw", value |-> NotCustomType]
     ELSE [returns |-> "string",
           value |-> autoGenNotice(TRUE) \o newlinePad(customTypeDefs)
                     \o tableTypeDefs \o autoGenNotice(FALSE)]

\* array.reverse() called on the list itself: it turns the list around in
\* place
reversedInPlace(array) == [returns |-> reverse(array), left |-> reverse(array)]

\* [...array].reverse(): reverse() turns around the array it is called on and
\* returns it; here that array is a copy, and `left` is the list after the
\* call.
reversedCopy(array) == [returns |-> reverse(array), left |-> array]

\* generateDropSQL() of part_001
generateDropSQL_p1(tabs, exts, types) ==
  LET dropTables == [i \in DOMAIN tabs |->
                       [line |-> "DROP TABLE IF EXISTS",
                        name |-> reversedCopy(tabs).returns[i].name]]
      dropTypes == [i \in DOMAIN types |->
                      [line |-> "DROP TYPE IF EXISTS", name |-> types[i].key]]
      dropExtensions == [i \in DOMAIN exts |->
                           [line |-> "DROP EXTENSION IF EXISTS", name |-> exts[i]]]
  IN [returns |-> "string",
      value |-> linesOf(dropTables) \o linesOf(dropTypes) \o linesOf(dropExtensions)]

(***************************************************************************)
(* The generators of part_002: they throw what validateAll() throws.       *)
(***************************************************************************)
IsBlank(l) == l = blank

\* text.trim() on a text of whole lines: the empty lines at both ends go
RECURSIVE trim(_)
trim(lines) ==
  IF lines = <<>> THEN <<>>
  ELSE IF IsBlank(Head(lines)) THEN trim(Tail(lines))
  ELSE IF IsBlank(lines[Len(lines)]) THEN trim(SubSeq(lines, 1, Len(lines) - 1))
  ELSE lines

\* items.join("\n\n") where an item may be the empty string: it still takes
\* its place between two separators
joinBlank_p2(items) ==
  joinBlank([i \in DOMAIN items |-> IF items[i] = <<>> THEN <<blank>> ELSE items[i]])

\* genTypeScriptType(customType) of part_002: an enum of Pascal-cased members
genTypeScriptType_p2(customType) ==
  IF has(customType, "values")
  THEN <<[line |-> "export enum", name |-> customType.typeScriptName,
          members |-> [i \in DOMAIN customType.values |->
                         Str(toPascalCase(Chars(customType.values[i])))]]>>
  ELSE <<NotCustomType>>

\* the default part of a column line of part_002; it tests column.default.key
defaultString_p2(column) ==
  IF has(column, "default")
  THEN IF has(column.default, "key") /\ column.default.key = "value"
       THEN IF column.default.value.typeof = "string"
            THEN [quote |-> "\"", text |-> column.default.value.text]
            ELSE [quote |-> "", text |-> column.default.value.text]
       ELSE [quote |-> "", text |-> column.default.value.text]
  ELSE [quote |-> "", text |-> ""]

columnLine_p2(column) ==
  [name |-> column.name, sqlName |-> column.type.sqlName,
   notNull |-> ~(has(column, "nullable") /\ column.nullable),
   hasDefault |-> has(column, "default"),
   default |-> defaultString_p2(column)]

\* one CREATE TABLE IF NOT EXISTS statement of part_002
tableDef_p2(table) ==
  [line |-> "CREATE TABLE", ifNotExists |-> TRUE, name |-> table.name,
   columns |-> [i \in DOMAIN table.columns |-> columnLine_p2(table.columns[i])],
   primaryKey |-> table.primaryKeys,
   foreignKeys |-> IF has(table, "foreignKeys") /\ Len(table.foreignKeys) > 0
                   THEN [k \in DOMAIN table.foreignKeys |->
                           [locals |-> <<table.foreignKeys[k].col>>,
                            references |-> table.foreignKeys[k].table,
                            foreigns |-> <<table.foreignKeys[k].column>>]]
                   ELSE <<>>]

\* generateSQLSchema() of part_002
generateSQLSchema_p2(tabs, exts, types) ==
  LET thrown == validateAll_p2(tabs, 1, {})
      extensionLines == [i \in DOMAIN exts |->
                           [line |-> "CREATE EXTENSION IF NOT EXISTS", name |-> exts[i]]]
      typeDefs == [i \in DOMAIN types |-> genSQLType(types[i].value)]
      tableDefs == joinBlank([i \in DOMAIN tabs |-> <<tableDef_p2(tabs[i])>>])
  IN IF thrown # undefined THEN [returns |-> "throw", value |-> thrown]
     ELSE IF NotCustomType \in Range(typeDefs)
     THEN [returns |-> "throw", value |-> NotCustomType]
     ELSE [returns |-> "string",
           value |-> newlinePad(extensionLines) \o newlinePad(typeDefs) \o tableDefs]

\* this.tables.map(table => ...) of part_002: one item per table, empty when
\* the table declares no new type; the map callback also puts the key of the
\* type into seenTypes
RECURSIVE customTypeDefs_p2(_, _)
customTypeDefs_p2(tabs, seenTypes) ==
  IF tabs = <<>> THEN <<>>
  ELSE LET uses == firstUses(Head(tabs).columns, seenTypes)
           defs == joinBlank([i \in DOMAIN uses.kept |->
                                genTypeScriptType_p2(uses.kept[i].type)])
       IN <<defs>>
          \o customTypeDefs_p2(Tail(tabs),
               uses.seen \cup {uses.kept[i].type.key : i \in DOMAIN uses.kept})

fieldLine_p2(column) ==
  [name |-> Str(toCamelCase(Chars(column.name))),
   separator |-> ": ",
   typeName |-> column.type.typeScriptName,
   nullable |-> ""]

tableTypeDef_p2(table) ==
  [line |-> "export type", name |-> table.typeName,
   fields |-> [i \in DOMAIN table.columns |-> fieldLine_p2(table.columns[i])]]

\* generateTypeScript() of part_002
generateTypeScript_p2(tabs) ==
  LET thrown == validateAll_p2(tabs, 1, {})
      customTypeDefs == trim(joinBlank_p2(customTypeDefs_p2(tabs, {})))
      tableTypeDefs == joinBlank([i \in DOMAIN tabs |-> <<tableTypeDef_p2(tabs[i])>>])
  IN IF thrown # undefined THEN [returns |-> "throw", value |-> thrown]
     ELSE IF NotCustomType \in Range(customTypeDefs)
     THEN [returns |-> "throw", value |-> NotCustomType]
     ELSE [returns |-> "string", value |-> newlinePad(customTypeDefs) \o tableTypeDefs]

(***************************************************************************)
(* The inputs: the value-type objects a caller has built, and the tables   *)
(* it declares with them.                                                  *)
(***************************************************************************)
Text == [ref |-> 3, key |-> "Text", sqlName |-> "TEXT", typeScriptName |-> "string"]

VarChar255 == VarChar(10, 255)
VarChar255Again == VarChar(11, 255)
VarChar64 == VarChar(12, 64)
Level == Enum(20, "level", <<"high", "med", "low">>)
LevelAgain == Enum(21, "level", <<"low", "high">>)
LevelCopy == Enum(23, "level", <<"low", "med", "high">>)
OrderState == Enum(22, "order_state", <<>>)

TableNames == {"a", "b", "c"}
ExtensionNames == {"uuid-ossp", "pgcrypto"}

typeNameOf(name) == CASE name = "a" -> "A" [] name = "b" -> "B" [] name = "c" -> "C"

\* Tables of part_002: foreignKeys is an object keyed by the local column.
IdTypes_p2 == {Integer, VarChar255, VarChar255Again, Level, LevelAgain}
PrimaryKeys_p2 == {<<>>, <<"id">>, <<"id", "id">>, <<"zz">>}
ForeignTargets_p2 == {"a", "b"}
ForeignKeys_p2 ==
  {<<[col |-> "id", table |-> t, column |-> "id"]>> : t \in ForeignTargets_p2}
  \cup {<<[col |-> "zz", table |-> "a", column |-> "id"]>>}

\* a table of part_002 with the one column id
table_p2(n, ty, pk) ==
  [name |-> n, typeName |-> typeNameOf(n), columns |-> <<[name |-> "id", type |-> ty]>>,
   primaryKeys |-> pk]

withForeignKeys_p2(table, fk) ==
  [name |-> table.name, typeName |-> table.typeName, columns |-> table.columns,
   primaryKeys |-> table.primaryKeys, foreignKeys |-> fk]

\* a table of part_002 with two columns and a key that lists ref_id, id and
\* ref_id again
twoKeys_p2(n) ==
  [name |-> n, typeName |-> typeNameOf(n),
   columns |-> <<[name |-> "id", type |-> Integer], [name |-> "ref_id", type |-> Integer]>>,
   primaryKeys |-> <<"ref_id", "id", "ref_id">>]

\* The tables handed to addTable: every name and type with the key id, without
\* and with a foreign key; a repeated key name; the keys PrimaryKeys_p2 holds
\* beside these, an empty list and a name that is no column; and a key of two
\* columns with a repetition.
TableInputs_p2 ==
  {table_p2(n, ty, <<"id">>) : n \in TableNames, ty \in IdTypes_p2}
  \cup
  {withForeignKeys_p2(table_p2(n, ty, <<"id">>), fk) :
     n \in TableNames, ty \in IdTypes_p2, fk \in ForeignKeys_p2}
  \cup
  {table_p2(n, ty, <<"id", "id">>) : n \in TableNames, ty \in {Integer, Level}}
  \cup
  {table_p2(n, Integer, pk) : n \in TableNames, pk \in PrimaryKeys_p2}
  \cup
  {withForeignKeys_p2(table_p2(n, Integer, pk), <<[col |-> "id", table |-> "a", column |-> "id"]>>) :
     n \in TableNames, pk \in PrimaryKeys_p2}
  \cup
  {twoKeys_p2("c")}

\* The lists handed to addTables, made of a table with a key (A), one with an
\* enumeration and a repeated key name (C), one without a primary key (N, of
\* C's name) and one whose foreign key refers to A (B).
TableA_p2 ==
  [name |-> "a", typeName |-> "A", columns |-> <<[name |-> "id", type |-> Integer]>>,
   primaryKeys |-> <<"id">>]

TableC_p2 ==
  [name |-> "c", typeName |-> "C", columns |-> <<[name |-> "id", type |-> Level]>>,
   primaryKeys |-> <<"id", "id">>]

TableN_p2 ==
  [name |-> "c", typeName |-> "C", columns |-> <<[name |-> "id", type |-> Integer]>>,
   primaryKeys |-> <<>>]

TableB_p2 ==
  [name |-> "b", typeName |-> "B", columns |-> <<[name |-> "id", type |-> Integer]>>,
   primaryKeys |-> <<"id">>,
   foreignKeys |-> <<[col |-> "id", table |-> "a", column |-> "id"]>>]

\* a table typed by an enumeration whose foreign key refers to C's column,
\* typed by another enumeration
TableR_p2 ==
  [name |-> "b", typeName |-> "B", columns |-> <<[name |-> "id", type |-> OrderState]>>,
   primaryKeys |-> <<"id">>,
   foreignKeys |-> <<[col |-> "id", table |-> "c", column |-> "id"]>>]

TableLists_p2 ==
  {<<>>, <<TableC_p2, TableR_p2>>, <<TableA_p2>>, <<TableB_p2>>, <<TableA_p2, TableB_p2>>, <<TableB_p2, TableA_p2>>,
   <<TableN_p2, TableA_p2>>, <<TableC_p2, TableN_p2>>, <<TableA_p2, TableN_p2, TableC_p2>>,
   <<TableA_p2, TableA_p2, TableC_p2>>, <<TableA_p2, TableC_p2, TableB_p2>>}

\* Tables of part_001: foreignKeys is a list of keys, each with column pairs.
pair(local, foreign) == [local |-> local, foreign |-> foreign]

TableShapes_p1(n) ==
  { \* one column, one key
    [name |-> n, typeName |-> typeNameOf(n),
     columns |-> <<[name |-> "id", type |-> Integer]>>,
     primaryKeys |-> <<"id">>],
    \* an enumeration, a nullable column with a default, a check constraint
    [name |-> n, typeName |-> typeNameOf(n),
     columns |-> <<[name |-> "id", type |-> VarChar255],
                   [name |-> "the_level", type |-> Level],
                   [name |-> "note", type |-> Text, nullable |-> TRUE,
                    default |-> [type |-> "value",
                                 value |-> [typeof |-> "string", text |-> "none"]]]>>,
     primaryKeys |-> <<"id", "id">>,
     constraints |-> <<[key |-> "note_non_zero", value |-> "(char_length(note) > 0)"]>>],
    \* a foreign key on a VarChar(255) and on an enumeration, each built by a
    \* call of its own, and a second foreign key to the same table
    [name |-> n, typeName |-> typeNameOf(n),
     columns |-> <<[name |-> "id", type |-> VarChar255Again],
                   [name |-> "the_level", type |-> LevelCopy],
                   [name |-> "ref_id", type |-> VarChar255Again]>>,
     primaryKeys |-> <<"id">>,
     foreignKeys |-> <<[table |-> "a",
                        columns |-> <<pair("the_level", "the_level"), pair("id", "id")>>,
                        onDelete |-> "CASCADE"],
                       [table |-> "a", columns |-> <<pair("ref_id", "id")>>,
                        onUpdate |-> "SET NULL"]>>],
    \* a foreign key on a VarChar of another length, the enumeration name reused
    [name |-> n, typeName |-> typeNameOf(n),
     columns |-> <<[name |-> "id", type |-> VarChar64],
                   [name |-> "the_level", type |-> LevelAgain, nullable |-> FALSE]>>,
     primaryKeys |-> <<"id">>,
     foreignKeys |-> <<[table |-> "b", columns |-> <<pair("id", "id")>>]>>],
    \* no primary key, a missing local column listed twice and a dangling target
    [name |-> n, typeName |-> typeNameOf(n),
     columns |-> <<[name |-> "id", type |-> Integer]>>,
     primaryKeys |-> <<>>,
     foreignKeys |-> <<[table |-> "a", columns |-> <<pair("zz", "id"), pair("zz", "id")>>],
                       [table |-> "nowhere", columns |-> <<pair("id", "id")>>]>>],
    \* a missing key column, a local column in two foreign keys
    [name |-> n, typeName |-> typeNameOf(n),
     columns |-> <<[name |-> "id", type |-> Integer],
                   [name |-> "ref_id", type |-> Integer,
                    default |-> [type |-> "value",
                                 value |-> [typeof |-> "number", text |-> "0"]]]>>,
     primaryKeys |-> <<"id", "zz">>,
     foreignKeys |-> <<[table |-> "a", columns |-> <<pair("id", "id")>>],
                       [table |-> "b",
                        columns |-> <<pair("ref_id", "id"), pair("id", "id")>>,
                        onUpdate |-> "SET NULL"]>>],
    \* the shared enumeration object, an enumeration without values, a
    \* default in raw SQL and a number for a default
    [name |-> n, typeName |-> typeNameOf(n),
     columns |-> <<[name |-> "id", type |-> UUID,
                    default |-> [type |-> "raw_sql",
                                 value |-> [typeof |-> "string",
                                            text |-> "UUID_GENERATE_V4()"]]],
                   [name |-> "the_level", type |-> Level],
                   [name |-> "ref_id", type |-> OrderState, nullable |-> TRUE],
                   [name |-> "note", type |-> Integer,
                    default |-> [type |-> "value",
                                 value |-> [typeof |-> "number", text |-> "0"]]]>>,
     primaryKeys |-> <<"id">>,
     foreignKeys |-> <<>>] }

\* the shapes under the two names their foreign keys refer to
TableNames_p1 == {"a", "b"}

TableInputs_p1 == UNION {TableShapes_p1(n) : n \in TableNames_p1}

(***************************************************************************)
(* The registry: new PTSchema() and its methods.                           *)
(***************************************************************************)
Init ==
  /\ tables = <<>>
  /\ extensions = <<>>
  /\ customTypes = <<>>
  /\ last = [op |-> "constructor"]

\* an add that appends the name even when the set has it (a list, not a Set)
extension_append(exts, ext) == Append(exts, ext)

\* this.extensions.add(extension) on a Set
extension(exts, ext) == IF ext \in Range(exts) THEN exts ELSE Append(exts, ext)

Extension ==
  \E ext \in ExtensionNames :
    /\ extensions' = extension(extensions, ext)
    /\ last' = [op |-> "extension", name |-> ext]
    /\ UNCHANGED <<tables, customTypes>>

\* addTable without the name check (the addTable of part_001 with validation)
addTable_p2_noNameCheck(tabs, types, table) ==
  LET deduped == [table EXCEPT !.primaryKeys = SetOf(@)]
      validationResult == validate_p2(tabs, deduped)
  IN IF validationResult # undefined
     THEN [threw |-> validationResult, tables |-> tabs, customTypes |-> types]
     ELSE [threw |-> undefined,
           tables |-> Append(tabs, deduped),
           customTypes |-> registerCustomTypes(types, deduped.columns)]

\* addTable that registers the custom types before it validates
addTable_p2_registersFirst(tabs, types, table) ==
  IF \E i \in DOMAIN tabs : tabs[i].name = table.name
  THEN [threw |-> TableAlreadyExists(table.name), tables |-> tabs, customTypes |-> types]
  ELSE LET deduped == [table EXCEPT !.primaryKeys = SetOf(@)]
           validationResult == validate_p2(tabs, deduped)
       IN IF validationResult # undefined
          THEN [threw |-> validationResult, tables |-> tabs,
                customTypes |-> registerCustomTypes(types, deduped.columns)]
          ELSE [threw |-> undefined,
                tables |-> Append(tabs, deduped),
                customTypes |-> registerCustomTypes(types, deduped.columns)]

\* an addTable that checks the name and registers the table without
\* validating it
addTable_p2_unvalidated(tabs, types, table) ==
  IF \E i \in DOMAIN tabs : tabs[i].name = table.name
  THEN [threw |-> TableAlreadyExists(table.name), tables |-> tabs, customTypes |-> types]
  ELSE [threw |-> undefined,
        tables |-> Append(tabs, [table EXCEPT !.primaryKeys = SetOf(@)]),
        customTypes |-> registerCustomTypes(types, table.columns)]

\* addTable(table) of part_002: what it throws, and the registry it leaves
addTable_p2(tabs, types, table) ==
  IF \E i \in DOMAIN tabs : tabs[i].name = table.name
  THEN [threw |-> TableAlreadyExists(table.name), tables |-> tabs, customTypes |-> types]
  ELSE LET deduped == [table EXCEPT !.primaryKeys = SetOf(@)]
           validationResult == validate_p2(tabs, deduped)
       IN IF validationResult # undefined
          THEN [threw |-> validationResult, tables |-> tabs, customTypes |-> types]
          ELSE [threw |-> undefined,
                tables |-> Append(tabs, deduped),
                customTypes |-> registerCustomTypes(types, deduped.columns)]

AddTable_p2 ==
  \E table \in TableInputs_p2 :
    LET done == addTable_p2(tables, customTypes, table)
    IN /\ Len(done.tables) <= MaxTables
       /\ tables' = done.tables
       /\ customTypes' = done.customTypes
       /\ last' = [op |-> "addTable", table |-> table.name, threw |-> done.threw]
       /\ UNCHANGED extensions

\* addTables that goes on with the next table after one has failed
RECURSIVE addTables_p2_skipsFailed(_, _, _)
addTables_p2_skipsFailed(tabs, types, list) ==
  IF list = <<>> THEN [threw |-> undefined, tables |-> tabs, customTypes |-> types]
  ELSE LET done == addTable_p2(tabs, types, Head(list))
           rest == addTables_p2_skipsFailed(done.tables, done.customTypes, Tail(list))
       IN IF done.threw # undefined THEN [rest EXCEPT !.threw = done.threw] ELSE rest

\* addTables(tables) of part_002: tables.forEach((t) => this.addTable(t)); an
\* addTable that throws ends the forEach
RECURSIVE addTables_p2(_, _, _)
addTables_p2(tabs, types, list) ==
  IF list = <<>> THEN [threw |-> undefined, tables |-> tabs, customTypes |-> types]
  ELSE LET done == addTable_p2(tabs, types, Head(list))
       IN IF done.threw # undefined THEN done
          ELSE addTables_p2(done.tables, done.customTypes, Tail(list))

AddTables_p2 ==
  \E list \in TableLists_p2 :
    LET done == addTables_p2(tables, customTypes, list)
    IN /\ Len(done.tables) <= MaxTables
       /\ tables' = done.tables
       /\ customTypes' = done.customTypes
       /\ last' = [op |-> "addTables", list |-> list, threw |-> done.threw]
       /\ UNCHANGED extensions

\* addTable(table) of part_001
addTable_p1(tabs, types, table) ==
  [threw |-> undefined,
   tables |-> Append(tabs, table),
   customTypes |-> registerCustomTypes(types, table.columns)]

AddTable_p1 ==
  \E table \in TableInputs_p1 :
    LET done == addTable_p1(tables, customTypes, table)
    IN /\ Len(done.tables) <= MaxTables
       /\ tables' = done.tables
       /\ customTypes' = done.customTypes
       /\ last' = [op |-> "addTable", table |-> table.name, threw |-> done.threw]
       /\ UNCHANGED extensions

Validate_p1 ==
  /\ last' = [op |-> "validate", returns |-> validate_p1(tables)]
  /\ UNCHANGED <<tables, extensions, customTypes>>

GenerateSQLSchema_p1 ==
  /\ last' = [op |-> "generateSQLSchema",
              returns |-> generateSQLSchema_p1(tables, extensions, customTypes)]
  /\ UNCHANGED <<tables, extensions, customTypes>>

GenerateTypeScript_p1 ==
  /\ last' = [op |-> "generateTypeScript", returns |-> generateTypeScript_p1(tables)]
  /\ UNCHANGED <<tables, extensions, customTypes>>

\* generateDropSQL() reads extensions and customTypes; of tables it takes a
\* copy before it reverses
GenerateDropSQL_p1 ==
  /\ last' = [op |-> "generateDropSQL",
              returns |-> generateDropSQL_p1(tables, extensions, customTypes)]
  /\ tables' = reversedCopy(tables).left
  /\ UNCHANGED <<extensions, customTypes>>

Next_p1 ==
  \/ Extension
  \/ AddTable_p1
  \/ Validate_p1
  \/ GenerateSQLSchema_p1
  \/ GenerateTypeScript_p1
  \/ GenerateDropSQL_p1

Spec_p1 == Init /\ [][Next_p1]_vars

GenerateSQLSchema_p2 ==
  /\ last' = [op |-> "generateSQLSchema",
              returns |-> generateSQLSchema_p2(tables, extensions, customTypes)]
  /\ UNCHANGED <<tables, extensions, customTypes>>

GenerateTypeScript_p2 ==
  /\ last' = [op |-> "generateTypeScript", returns |-> generateTypeScript_p2(tables)]
  /\ UNCHANGED <<tables, extensions, customTypes>>

Next_p2 ==
  \/ Extension
  \/ AddTable_p2
  \/ AddTables_p2
  \/ GenerateSQLSchema_p2
  \/ GenerateTypeScript_p2

Spec_p2 == Init /\ [][Next_p2]_vars

(***************************************************************************)
(* What the specification calls an invalid table (section 4.2), stated on  *)
(* the declaration itself: the problem of the primary-key list, of every   *)
(* primary-key name and of every foreign-key column pair.                  *)
(***************************************************************************)
columnNames(table) == {table.columns[i].name : i \in DOMAIN table.columns}

\* the same scalar kind and parameters, or the same enumeration
SameValueType(a, b) ==
  /\ a.key = b.key /\ a.sqlName = b.sqlName /\ a.typeScriptName = b.typeScriptName
  /\ has(a, "length") = has(b, "length")
  /\ has(a, "length") => a.length = b.length
  /\ has(a, "values") = has(b, "values")
  /\ has(a, "values") => Range(a.values) = Range(b.values)

pairsOf(table) == IF has(table, "foreignKeys") THEN columnPairs(table) ELSE <<>>

\* the registered tables a column pair can refer to, by position
targetsOf(tabs, table, p) ==
  {i \in DOMAIN tabs : /\ tabs[i].name # table.name
                       /\ tabs[i].name = p.table
                       /\ p.foreign \in columnNames(tabs[i])}

referencedType(tabs, table, p) ==
  LET first == CHOOSE i \in targetsOf(tabs, table, p) :
                 \A j \in targetsOf(tabs, table, p) : i <= j
  IN columnOf(tabs[first], p.foreign).type

PairHasTypes(tabs, table, p) ==
  p.local \in columnNames(table) /\ targetsOf(tabs, table, p) # {}

\* the local column of the i-th pair is already taken by an earlier pair
LocalTakenBefore(table, i) ==
  \E j \in 1..(i - 1) : pairsOf(table)[j].local = pairsOf(table)[i].local

KeyProblems(table) ==
  (IF table.primaryKeys = <<>> THEN {NoPrimaryKey(table.name)} ELSE {})
  \cup {MissingPrimaryKeyColumn(table.name, k) :
          k \in Range(table.primaryKeys) \ columnNames(table)}

PairProblems(tabs, table) ==
  LET ps == pairsOf(table)
  IN {LocalColumnNotFound(ps[i].local, table.name) :
        i \in {i \in DOMAIN ps : ps[i].local \notin columnNames(table)}}
     \cup
     {DuplicateForeignKey(ps[i].local, table.name) :
        i \in {i \in DOMAIN ps : /\ ps[i].local \in columnNames(table)
                                 /\ LocalTakenBefore(table, i)}}
     \cup
     {NoForeignTable(ps[i].table, ps[i].foreign) :
        i \in {i \in DOMAIN ps : /\ ps[i].local \in columnNames(table)
                                 /\ ~LocalTakenBefore(table, i)
                                 /\ targetsOf(tabs, table, ps[i]) = {}}}
     \cup
     {TypeMismatch_p1(ps[i].local, table.name, ps[i].foreign, ps[i].table) :
        i \in {i \in DOMAIN ps :
                 /\ PairHasTypes(tabs, table, ps[i])
                 /\ ~LocalTakenBefore(table, i)
                 /\ ~SameValueType(referencedType(tabs, table, ps[i]),
                                   columnOf(table, ps[i].local).type)}}

Problems(tabs, table) == KeyProblems(table) \cup PairProblems(tabs, table)

RepeatedName(tabs, i) == \E j \in 1..(i - 1) : tabs[j].name = tabs[i].name

SchemaInvalid(tabs) ==
  \E i \in DOMAIN tabs : RepeatedName(tabs, i) \/ Problems(tabs, tabs[i]) # {}

\* the problems a validate() result holds for a table name
reportedFor(results, name) ==
  IF results = undefined THEN {}
  ELSE UNION {Range(results.perTableErrors[k].value) :
                k \in {k \in DOMAIN results.perTableErrors :
                         results.perTableErrors[k].key = name}}

(***************************************************************************)
(* Claims on addTable (part_002).                                          *)
(***************************************************************************)
nameTaken(tabs, name) == \E i \in DOMAIN tabs : tabs[i].name = name

ValidationCodes ==
  {"DuplicateColumn", "NoPrimaryKey", "MissingPrimaryKeyColumn", "LocalColumnNotFound",
   "DuplicateForeignKey", "NoForeignTable", "TypeMismatch"}

\* C1: an addTable call with the name of a registered table throws the
\* duplicate-table error and leaves the collection as it was, with exactly
\* one table of that name (the first).
C1_DuplicateNameRejected ==
  [][(last'.op = "addTable" /\ nameTaken(tables, last'.table))
       => /\ last'.threw = TableAlreadyExists(last'.table)
          /\ tables' = tables
          /\ Cardinality({i \in DOMAIN tables' : tables'[i].name = last'.table}) = 1]_vars

C1_Witness ==
  /\ last.op = "addTable"
  /\ last.threw = TableAlreadyExists(last.table)
  /\ Cardinality({i \in DOMAIN tables : tables[i].name = last.table}) = 1
  /\ Len(tables) = 2

\* C2 (as stated): addTable of a table with an empty primary-key list throws
\* a validation error that names the table, whatever the registry holds.
C2_EmptyKeyValidationError ==
  \A t \in TableInputs_p2 :
    t.primaryKeys = <<>> =>
      LET done == addTable_p2(tables, customTypes, t)
      IN /\ done.threw # undefined
         /\ done.threw.code \in ValidationCodes
         /\ done.threw.table = t.name

\* C2 (amended): addTable of a table with an empty primary-key list throws
\* and registers nothing: the missing-primary-key validation error naming the
\* table, or the duplicate-table error when the name is already registered.
C2_EmptyKeyRejected ==
  \A t \in TableInputs_p2 :
    t.primaryKeys = <<>> =>
      LET done == addTable_p2(tables, customTypes, t)
      IN /\ done.threw = IF nameTaken(tables, t.name)
                         THEN TableAlreadyExists(t.name)
                         ELSE NoPrimaryKey(t.name)
         /\ done.tables = tables
         /\ done.customTypes = customTypes

C2_Witness ==
  /\ last.op = "addTable"
  /\ last.threw = NoPrimaryKey(last.table)
  /\ ~nameTaken(tables, last.table)
  /\ Len(tables) >= 1

\* The registry after any run of addTable calls: an addTable call that throws (duplicate name or validation problem)
\* leaves tables, customTypes and extensions as they were; so every
\* registered table passed validation against the tables before it, no two
\* registered tables share a name, and customTypes holds nothing but the
\* types of registered columns.
C3_RegisteredPassedValidation ==
  /\ \A i \in DOMAIN tables :
       /\ validate_p2(SubSeq(tables, 1, i - 1), tables[i]) = undefined
       /\ ~RepeatedName(tables, i)
  /\ \A k \in DOMAIN customTypes :
       \E i \in DOMAIN tables : \E c \in DOMAIN tables[i].columns :
         tables[i].columns[c].type = customTypes[k].value

\* C3: a failed addTable (last.threw set) changes neither tables nor
\* customTypes nor extensions, and the registry always satisfies
\* C3_RegisteredPassedValidation.
C3_FailedAddTableChangesNothing ==
  /\ [][(last'.op = "addTable" /\ last'.threw # undefined)
          => /\ tables' = tables
             /\ customTypes' = customTypes
             /\ extensions' = extensions]_vars
  /\ []C3_RegisteredPassedValidation

C3_Witness ==
  /\ last.op = "addTable"
  /\ last.threw # undefined
  /\ last.threw.code = "TypeMismatch"
  /\ Len(tables) >= 1
  /\ customTypes # <<>>
  /\ extensions # <<>>

(***************************************************************************)
(* Claims on validation and generation (part_001).                         *)
(***************************************************************************)
\* every problem a validate() result holds, for any table
reportedProblems(results) ==
  IF results = undefined THEN {}
  ELSE UNION {Range(results.perTableErrors[k].value) : k \in DOMAIN results.perTableErrors}

failsValidation(returned) ==
  /\ returned.returns = "errors"
  /\ returned.value.errors # <<>> \/ returned.value.perTableErrors # <<>>

\* C4: generateSQLSchema and generateTypeScript validate the whole schema
\* first: with an invalid table (or a repeated table name) registered they
\* return the validation errors and no text, and they return text only when
\* validation finds no problem.
C4_GeneratorsValidateFirst ==
  last.op \in {"generateSQLSchema", "generateTypeScript"} =>
    /\ SchemaInvalid(tables) => failsValidation(last.returns)
    /\ last.returns.returns = "string" =>
         ~SchemaInvalid(tables) /\ validate_p1(tables) = undefined

C4_Witness ==
  /\ last.op = "generateSQLSchema"
  /\ failsValidation(last.returns)
  /\ \E i \in DOMAIN tables : ~RepeatedName(tables, i) /\ Problems(tables, tables[i]) # {}
  /\ \E i \in DOMAIN tables : Problems(tables, tables[i]) = {}

\* C5: generateDropSQL validates the whole schema first: with an invalid
\* table (or a repeated table name) registered it returns the validation
\* errors and no drop script.
C5_DropSQLValidatesFirst ==
  (last.op = "generateDropSQL" /\ SchemaInvalid(tables)) => failsValidation(last.returns)

\* a column pair of a registered table whose two columns exist and differ in type
MismatchedPair(tabs, i, k) ==
  LET p == pairsOf(tabs[i])[k]
  IN /\ PairHasTypes(tabs, tabs[i], p)
     /\ ~SameValueType(referencedType(tabs, tabs[i], p), columnOf(tabs[i], p.local).type)

SeparatelyBuiltSameType(a, b) ==
  /\ a.ref # b.ref
  /\ a.key = b.key /\ a.key # "UserDefinedType"
  /\ has(a, "length") /\ has(b, "length") /\ a.length = b.length

SeparatelyBuiltPair(tabs, i, k) ==
  LET p == pairsOf(tabs[i])[k]
  IN /\ PairHasTypes(tabs, tabs[i], p)
     /\ SeparatelyBuiltSameType(referencedType(tabs, tabs[i], p),
                                columnOf(tabs[i], p.local).type)

\* C7: a foreign-key column pair whose two columns are typed by separately
\* built objects of the same scalar kind and parameters gets no
\* type-mismatch problem from validation.
C7_StructuralEquality ==
  \A i \in DOMAIN tables : \A k \in DOMAIN pairsOf(tables[i]) :
    SeparatelyBuiltPair(tables, i, k) =>
      LET p == pairsOf(tables[i])[k]
          mismatch == TypeMismatch_p1(p.local, tables[i].name, p.foreign, p.table)
      IN /\ mismatch \notin Range(validateTable_p1(tables, tables[i]))
         /\ (last.op = "validate" /\ ~RepeatedName(tables, i)) =>
              mismatch \notin reportedFor(last.returns, tables[i].name)

C7_Witness ==
  /\ last.op = "validate"
  /\ last.returns = undefined
  /\ \E i \in DOMAIN tables : \E k \in DOMAIN pairsOf(tables[i]) :
       SeparatelyBuiltPair(tables, i, k)

\* the enumeration types the registered columns use
enumTypesUsed(tabs) ==
  UNION {{tabs[i].columns[c].type :
            c \in {c \in DOMAIN tabs[i].columns :
                     tabs[i].columns[c].type.key = "UserDefinedType"}} : i \in DOMAIN tabs}

enumNamesUsed(tabs) == {ty.sqlName : ty \in enumTypesUsed(tabs)}

\* C8: for every enumeration type that columns of the registry use, however
\* many, the text of generateSQLSchema holds exactly one CREATE TYPE for it
\* and the text of generateTypeScript exactly one declaration of it.
C8_OneDeclarationPerEnum ==
  /\ (last.op = "generateSQLSchema" /\ last.returns.returns = "string") =>
       \A n \in enumNamesUsed(tables) :
         Cardinality({j \in DOMAIN last.returns.value :
                        /\ last.returns.value[j].line = "CREATE TYPE"
                        /\ last.returns.value[j].name = n}) = 1
  /\ (last.op = "generateTypeScript" /\ last.returns.returns = "string") =>
       \A ty \in enumTypesUsed(tables) :
         /\ Cardinality({j \in DOMAIN last.returns.value :
                           /\ last.returns.value[j].line = "export const"
                           /\ last.returns.value[j].name = ty.typeScriptName \o "Values"}) = 1
         /\ Cardinality({j \in DOMAIN last.returns.value :
                           /\ last.returns.value[j].line = "export type"
                           /\ has(last.returns.value[j], "typeOf")
                           /\ last.returns.value[j].name = ty.typeScriptName}) = 1

C8_Witness ==
  /\ last.op = "generateSQLSchema"
  /\ last.returns.returns = "string"
  /\ Len(tables) = 2
  /\ \A i \in DOMAIN tables : \E c \in DOMAIN tables[i].columns :
       tables[i].columns[c].type = Level

IsDropTable(l) == l.line = "DROP TABLE IF EXISTS"
IsDropType(l) == l.line = "DROP TYPE IF EXISTS"
IsDropExtension(l) == l.line = "DROP EXTENSION IF EXISTS"

namesOf(lines) == [j \in DOMAIN lines |-> lines[j].name]

\* C9: the text of generateDropSQL holds one DROP TABLE IF EXISTS per
\* registered table, in the reverse of the order the tables were added, then
\* one DROP TYPE IF EXISTS per custom type, then one DROP EXTENSION IF EXISTS
\* per extension; no type or extension drop stands before a table drop.
C9_DropOrder ==
  last.op = "generateDropSQL" =>
    LET text == last.returns.value
    IN /\ last.returns.returns = "string"
       /\ namesOf(SelectSeq(text, IsDropTable))
            = [j \in DOMAIN tables |-> tables[Len(tables) + 1 - j].name]
       /\ Range(namesOf(SelectSeq(text, IsDropType))) = enumNamesUsed(tables)
       /\ Len(SelectSeq(text, IsDropType)) = Cardinality(enumNamesUsed(tables))
       /\ namesOf(SelectSeq(text, IsDropExtension)) = extensions
       /\ \A i, j \in DOMAIN text :
            (i < j /\ IsDropTable(text[j])) =>
              (~IsDropType(text[i]) /\ ~IsDropExtension(text[i]))
       /\ \A i, j \in DOMAIN text :
            (i < j /\ IsDropType(text[j])) => ~IsDropExtension(text[i])

C9_Witness ==
  /\ last.op = "generateDropSQL"
  /\ Len(tables) = 2
  /\ tables[1].name # tables[2].name
  /\ Len(customTypes) = 2
  /\ Len(extensions) = 2

\* C10: the error validation reports for a table holds every problem of the
\* table at once: the missing primary key, each primary-key name without a
\* column, and the problem of each foreign-key column pair.
C10_AllProblemsReported ==
  last.op = "validate" =>
    \A i \in DOMAIN tables :
      ~RepeatedName(tables, i) =>
        Problems(tables, tables[i]) \subseteq reportedFor(last.returns, tables[i].name)

C10_Witness ==
  /\ last.op = "validate"
  /\ \E i \in DOMAIN tables :
       /\ ~RepeatedName(tables, i)
       /\ NoPrimaryKey(tables[i].name) \in reportedFor(last.returns, tables[i].name)
       /\ LocalColumnNotFound("zz", tables[i].name) \in reportedFor(last.returns, tables[i].name)
       /\ NoForeignTable("nowhere", "id") \in reportedFor(last.returns, tables[i].name)

\* the validate() result has an entry keyed by the table name
hasEntry(results, name) ==
  /\ results # undefined
  /\ \E k \in DOMAIN results.perTableErrors : results.perTableErrors[k].key = name

ForwardReference(tabs) ==
  \E i \in DOMAIN tabs : \E k \in DOMAIN pairsOf(tabs[i]) :
    /\ targetsOf(tabs, tabs[i], pairsOf(tabs[i])[k]) # {}
    /\ \A j \in targetsOf(tabs, tabs[i], pairsOf(tabs[i])[k]) : j > i

\* the table has a foreign-key column pair without a registered target
DanglingPair(tabs, table) ==
  \E k \in DOMAIN pairsOf(table) : targetsOf(tabs, table, pairsOf(table)[k]) = {}

\* C12: addTable accepts a table whose foreign key refers to a table that is
\* not registered yet, and once the referenced table (with the referenced
\* column of the same type) is registered and no table has a problem,
\* generateSQLSchema and generateTypeScript return text although the
\* referencing table was added first.
C12_AnyInsertionOrder ==
  /\ [][(last'.op = "addTable")
          => /\ last'.threw = undefined
             /\ Len(tables') = Len(tables) + 1
             /\ SubSeq(tables', 1, Len(tables)) = tables
             /\ tables'[Len(tables')].name = last'.table]_vars
  /\ []((/\ last.op \in {"generateSQLSchema", "generateTypeScript"}
         /\ ForwardReference(tables)
         /\ ~SchemaInvalid(tables))
        => last.returns.returns = "string")

C12_Witness ==
  /\ last.op = "generateSQLSchema"
  /\ last.returns.returns = "string"
  /\ Len(tables) = 2
  /\ pairsOf(tables[1]) # <<>>
  /\ targetsOf(tables, tables[1], pairsOf(tables[1])[1]) = {2}
  /\ DanglingPair(<<tables[1]>>, tables[1])

\* the table as addTable registers it
deduped(table) == [table EXCEPT !.primaryKeys = SetOf(@)]

\* the registry with the first n tables of the list appended
withPrefix(tabs, list, n) == tabs \o [j \in 1..n |-> deduped(list[j])]

\* addTable of the k-th table fails on the registry that holds the tables
\* before it
failsAt(tabs, list, k) ==
  addTable_p2(withPrefix(tabs, list, k - 1), <<>>, list[k]).threw # undefined

\* the position of the first table of the list whose addTable fails, or 0
firstFailure(tabs, list) ==
  IF \E k \in DOMAIN list : failsAt(tabs, list, k)
  THEN CHOOSE k \in DOMAIN list :
         failsAt(tabs, list, k) /\ \A j \in 1..(k - 1) : ~failsAt(tabs, list, j)
  ELSE 0

\* C13: addTables(list) appends the tables before the first one whose
\* addTable fails, in list order, and none from that one on, and throws what
\* that addTable throws; when none fails it appends the whole list in order
\* and throws nothing.
C13_AddTablesStopsAtFirstFailure ==
  \A list \in TableLists_p2 :
    LET done == addTables_p2(tables, customTypes, list)
        k == firstFailure(tables, list)
    IN IF k = 0
       THEN /\ done.threw = undefined
            /\ done.tables = withPrefix(tables, list, Len(list))
       ELSE /\ done.threw = addTable_p2(withPrefix(tables, list, k - 1), <<>>, list[k]).threw
            /\ done.tables = withPrefix(tables, list, k - 1)

C13_Witness ==
  /\ last.op = "addTables"
  /\ Len(last.list) = 3
  /\ last.threw = NoPrimaryKey(last.list[2].name)
  /\ tables = <<deduped(last.list[1])>>
  /\ addTable_p2(tables, customTypes, last.list[3]).threw = undefined

(***************************************************************************)
(* Claims on the custom-type map.                                          *)
(***************************************************************************)
\* C14: a successful addTable never replaces an entry the custom-type map
\* already has (first writer wins per type name): every entry keeps its
\* value, and a new name is the only thing added.
C14_FirstWriterWins ==
  [][(last'.op = "addTable" /\ last'.threw = undefined)
       => \A k \in DOMAIN customTypes :
            /\ k \in DOMAIN customTypes'
            /\ customTypes'[k] = customTypes[k]]_vars

(***************************************************************************)
(* Claims on the registry operations (part_001).                           *)
(***************************************************************************)
Generators == {"generateSQLSchema", "generateTypeScript", "generateDropSQL"}

\* what a call of the generator returns in the current state
resultNow(op) ==
  CASE op = "generateSQLSchema" -> generateSQLSchema_p1(tables, extensions, customTypes)
    [] op = "generateTypeScript" -> generateTypeScript_p1(tables)
    [] op = "generateDropSQL" -> generateDropSQL_p1(tables, extensions, customTypes)

\* C15: generateSQLSchema, generateTypeScript and generateDropSQL leave
\* tables, extensions and customTypes as they were, so in the state a
\* generator call leaves, the same call returns the same result again.
C15_GeneratorsReadOnly ==
  /\ [][(last'.op \in Generators)
          => /\ tables' = tables
             /\ extensions' = extensions
             /\ customTypes' = customTypes]_vars
  /\ [](last.op \in Generators => last.returns = resultNow(last.op))

C15_Witness ==
  /\ last.op = "generateDropSQL"
  /\ last.returns = resultNow("generateDropSQL")
  /\ Len(tables) = 2
  /\ tables[1].name # tables[2].name
  /\ resultNow("generateSQLSchema").returns = "string"
  /\ customTypes # <<>>
  /\ extensions # <<>>

IsCreateExtension(l) == l.line = "CREATE EXTENSION IF NOT EXISTS"

\* C16: extension(name) with a name the set already holds leaves the set as
\* it was, and with a new name adds it after the others; so the set never
\* holds a name twice, keeps the names in the order of their first insertion,
\* and the text of generateSQLSchema has exactly one CREATE EXTENSION IF NOT
\* EXISTS per name, in that order.
C16_ExtensionIdempotent ==
  /\ [][(last'.op = "extension")
          => /\ last'.name \in Range(extensions) => extensions' = extensions
             /\ last'.name \notin Range(extensions)
                  => extensions' = Append(extensions, last'.name)]_vars
  /\ [][SubSeq(extensions', 1, Len(extensions)) = extensions]_vars
  /\ [](\A i, j \in DOMAIN extensions : extensions[i] = extensions[j] => i = j)
  /\ []((last.op = "generateSQLSchema" /\ last.returns.returns = "string")
        => namesOf(SelectSeq(last.returns.value, IsCreateExtension)) = extensions)

C16_Witness ==
  /\ last.op = "extension"
  /\ Len(extensions) = 2
  /\ last.name = extensions[1]
  /\ resultNow("generateSQLSchema").returns = "string"
  /\ namesOf(SelectSeq(resultNow("generateSQLSchema").value, IsCreateExtension))
       = <<extensions[1], extensions[2]>>

(***************************************************************************)
(* Claims on table names and generation (part_002).                        *)
(***************************************************************************)
\* a second table of the name of the i-th registered table: a copy of that
\* table, or a plain table of the name
secondOfName(tabs, i) == {tabs[i], table_p2(tabs[i].name, Integer, <<"id">>)}

\* C17: no two registered tables share a name (addTable enforces it), and a
\* collection that did hold a second table of a registered name would be
\* reported by validateAll() with the "already exists" error for that name,
\* so that generateSQLSchema and generateTypeScript throw and render nothing.
C17_UniqueNames ==
  /\ \A i, j \in DOMAIN tables : tables[i].name = tables[j].name => i = j
  /\ \A i \in DOMAIN tables : \A t \in secondOfName(tables, i) :
       LET held == Append(tables, t)
       IN /\ validateAll_p2(held, 1, {}) = TableAlreadyExists(t.name)
          /\ generateSQLSchema_p2(held, extensions, customTypes)
               = [returns |-> "throw", value |-> TableAlreadyExists(t.name)]
          /\ generateTypeScript_p2(held)
               = [returns |-> "throw", value |-> TableAlreadyExists(t.name)]

C17_Witness ==
  /\ last.op = "generateSQLSchema"
  /\ last.returns.returns = "string"
  /\ Len(tables) = 2
  /\ \E t \in secondOfName(tables, 2) :
       /\ t # tables[2]
       /\ validate_p2(tables, t) = undefined
       /\ generateSQLSchema_p2(Append(tables, t), extensions, customTypes).returns = "throw"

(***************************************************************************)
(* Claims on the rendering of columns (part_001).                          *)
(***************************************************************************)
isNullable(column) == has(column, "nullable") /\ column.nullable

IsCreateTable(l) == l.line = "CREATE TABLE"
IsTableType(l) == l.line = "export type" /\ has(l, "fields")

\* every SQL column line carries NOT NULL exactly when its column is not
\* nullable
NotNullWhenNotNullable(text) ==
  LET defs == SelectSeq(text, IsCreateTable)
  IN /\ Len(defs) = Len(tables)
     /\ \A i \in DOMAIN tables :
          /\ Len(defs[i].columns) = Len(tables[i].columns)
          /\ \A c \in DOMAIN tables[i].columns :
               defs[i].columns[c].notNull <=> ~isNullable(tables[i].columns[c])

repeatedLocals(table) ==
  {pairsOf(table)[k].local :
     k \in {k \in DOMAIN pairsOf(table) :
              \E j \in DOMAIN pairsOf(table) :
                j # k /\ pairsOf(table)[j].local = pairsOf(table)[k].local}}

duplicateKeyProblems(errors) == {e \in errors : e.code = "DuplicateForeignKey"}

\* C19: for a table with a local column in more than one foreign-key column
\* pair (of one key or of several) validation reports a problem, the
\* duplicate-foreign-key problem of that column when the column exists; for
\* a table whose foreign-key local columns all appear once it reports no
\* such problem.
C19_DuplicateForeignKeyReported ==
  \A i \in DOMAIN tables :
    LET table == tables[i]
        errors == Range(validateTable_p1(tables, table))
        expected == {DuplicateForeignKey(l, table.name) :
                       l \in repeatedLocals(table) \cap columnNames(table)}
    IN /\ repeatedLocals(table) # {} => errors # {}
       /\ duplicateKeyProblems(errors) = expected
       /\ last.op = "validate" =>
            /\ repeatedLocals(table) # {} => last.returns # undefined
            /\ ~RepeatedName(tables, i) =>
                 duplicateKeyProblems(reportedFor(last.returns, table.name)) = expected

C19_Witness ==
  /\ last.op = "validate"
  /\ Len(tables) = 2
  /\ tables[1].name # tables[2].name
  /\ pairsOf(tables[1]) # <<>>
  /\ repeatedLocals(tables[1]) = {}
  /\ duplicateKeyProblems(reportedFor(last.returns, tables[1].name)) = {}
  /\ repeatedLocals(tables[2]) = {"id"}
  /\ DuplicateForeignKey("id", tables[2].name) \in reportedFor(last.returns, tables[2].name)

primaryKeyProblems(errors) ==
  {e \in errors : e.code \in {"NoPrimaryKey", "MissingPrimaryKeyColumn"}}

\* the primary-key list is not empty and names columns of the table only
PrimaryKeyWellFormed(table) ==
  /\ Len(table.primaryKeys) > 0
  /\ \A k \in DOMAIN table.primaryKeys : table.primaryKeys[k] \in columnNames(table)

\* C20: validation reports the missing-column problem for every primary-key
\* name that is not a column of the table, and it reports no primary-key
\* problem for a table exactly when the table's primary-key list is not empty
\* and every name in it is a column of the table.
C20_PrimaryKeyCheck ==
  \A i \in DOMAIN tables :
    LET table == tables[i]
        errors == Range(validateTable_p1(tables, table))
    IN /\ \A k \in DOMAIN table.primaryKeys :
            table.primaryKeys[k] \notin columnNames(table)
              <=> MissingPrimaryKeyColumn(table.name, table.primaryKeys[k]) \in errors
       /\ (primaryKeyProblems(errors) = {}) <=> PrimaryKeyWellFormed(table)
       /\ (last.op = "validate" /\ ~RepeatedName(tables, i)) =>
            primaryKeyProblems(reportedFor(last.returns, table.name))
              = primaryKeyProblems(errors)

C20_Witness ==
  /\ last.op = "validate"
  /\ Len(tables) = 2
  /\ tables[1].name # tables[2].name
  /\ tables[1].primaryKeys = <<"id", "zz">>
  /\ primaryKeyProblems(reportedFor(last.returns, tables[1].name))
       = {MissingPrimaryKeyColumn(tables[1].name, "zz")}
  /\ PrimaryKeyWellFormed(tables[2])
  /\ primaryKeyProblems(reportedFor(last.returns, tables[2].name)) = {}

\* the k-th column pair of the table gets as far as the target check: its
\* local column exists and no earlier pair has taken it
ReachesTargetCheck(table, k) ==
  /\ pairsOf(table)[k].local \in columnNames(table)
  /\ ~LocalTakenBefore(table, k)

\* some registered table of another name than the declaring table's is named
\* as the pair says and defines the referenced column
TargetExists(tabs, table, p) ==
  \E j \in DOMAIN tabs :
    /\ tabs[j].name # table.name
    /\ tabs[j].name = p.table
    /\ \E c \in DOMAIN tabs[j].columns : tabs[j].columns[c].name = p.foreign

danglingProblems(errors) == {e \in errors : e.code = "NoForeignTable"}

SameNameEnumPair(tabs, i, k) ==
  LET p == pairsOf(tabs[i])[k]
  IN /\ ~LocalTakenBefore(tabs[i], k)
     /\ PairHasTypes(tabs, tabs[i], p)
     /\ LET a == referencedType(tabs, tabs[i], p)
            b == columnOf(tabs[i], p.local).type
        IN /\ a.ref # b.ref
           /\ a.key = "UserDefinedType" /\ b.key = "UserDefinedType"
           /\ a.sqlName = b.sqlName

SameValues(tabs, i, k) ==
  LET p == pairsOf(tabs[i])[k]
      a == referencedType(tabs, tabs[i], p).values
      b == columnOf(tabs[i], p.local).type.values
  IN /\ \A x \in DOMAIN a : \E y \in DOMAIN b : a[x] = b[y]
     /\ \A y \in DOMAIN b : \E x \in DOMAIN a : a[x] = b[y]

\* C22 (as stated): a foreign key between two columns typed by separately
\* built enumerations of the same name gets no type-mismatch problem,
\* whatever the value lists.
C22_SameNameEnumsEqual ==
  \A i \in DOMAIN tables : \A k \in DOMAIN pairsOf(tables[i]) :
    SameNameEnumPair(tables, i, k) =>
      LET p == pairsOf(tables[i])[k]
      IN TypeMismatch_p1(p.local, tables[i].name, p.foreign, p.table)
           \notin Range(validateTable_p1(tables, tables[i]))

\* C22 (amended): a foreign key between two columns typed by separately built
\* enumerations of the same name gets no type-mismatch problem exactly when
\* the two enumerations have the same set of values, in whatever order the
\* values were listed; with different sets the type mismatch is reported.
C22_SameNameSameValuesEqual ==
  \A i \in DOMAIN tables : \A k \in DOMAIN pairsOf(tables[i]) :
    SameNameEnumPair(tables, i, k) =>
      LET p == pairsOf(tables[i])[k]
          mismatch == TypeMismatch_p1(p.local, tables[i].name, p.foreign, p.table)
      IN /\ SameValues(tables, i, k)
              <=> mismatch \notin Range(validateTable_p1(tables, tables[i]))
         /\ (last.op = "validate" /\ ~RepeatedName(tables, i)) =>
              (SameValues(tables, i, k)
                 <=> mismatch \notin reportedFor(last.returns, tables[i].name))

C22_Witness ==
  /\ last.op = "validate"
  /\ last.returns = undefined
  /\ \E i \in DOMAIN tables : \E k \in DOMAIN pairsOf(tables[i]) :
       LET p == pairsOf(tables[i])[k]
       IN /\ SameNameEnumPair(tables, i, k)
          /\ referencedType(tables, tables[i], p).values
               # columnOf(tables[i], p.local).type.values


NoRepeats(s) == \A i, j \in DOMAIN s : s[i] = s[j] => i = j

firstIndex(s, x) == CHOOSE i \in DOMAIN s : s[i] = x /\ \A j \in 1..(i - 1) : s[j] # x

\* r lists every element of s once, in the order of first occurrence in s
IsFirstOccurrenceList(r, s) ==
  /\ NoRepeats(r)
  /\ Range(r) = Range(s)
  /\ \A i, j \in DOMAIN r : i < j => firstIndex(s, r[i]) < firstIndex(s, r[j])

\* C23: addTable deduplicates the primary-key list of the table it registers:
\* every registered table has a primary-key list without repeated names, a
\* table that addTable accepts is registered with its key names in
\* first-occurrence order, and the PRIMARY KEY clause generateSQLSchema writes
\* for a table lists exactly these names, each once, in that order.
C23_PrimaryKeysDeduplicated ==
  /\ \A i \in DOMAIN tables : NoRepeats(tables[i].primaryKeys)
  /\ \A table \in TableInputs_p2 :
       LET done == addTable_p2(tables, customTypes, table)
       IN done.threw = undefined =>
            /\ Len(done.tables) = Len(tables) + 1
            /\ IsFirstOccurrenceList(done.tables[Len(done.tables)].primaryKeys,
                                     table.primaryKeys)
  /\ (last.op = "generateSQLSchema" /\ last.returns.returns = "string") =>
       LET defs == SelectSeq(last.returns.value, IsCreateTable)
       IN /\ Len(defs) = Len(tables)
          /\ \A i \in DOMAIN tables :
               /\ NoRepeats(defs[i].primaryKey)
               /\ defs[i].primaryKey = tables[i].primaryKeys

C23_Witness ==
  /\ last.op = "generateSQLSchema"
  /\ last.returns.returns = "string"
  /\ \E i \in DOMAIN tables :
       /\ tables[i] \notin TableInputs_p2
       /\ twoKeys_p2(tables[i].name) \in TableInputs_p2
       /\ tables[i].primaryKeys = <<"ref_id", "id">>
       /\ SelectSeq(last.returns.value, IsCreateTable)[i].primaryKey = <<"ref_id", "id">>


\* the foreign keys a table declares
foreignKeysOf(table) == IF has(table, "foreignKeys") THEN table.foreignKeys ELSE <<>>

\* the action a foreign key declares under the given name, "NO ACTION" when
\* it declares none
actionOf(fKey, name) == IF name \in DOMAIN fKey THEN fKey[name] ELSE "NO ACTION"

\* the clause is the one of the foreign key: the local and the foreign
\* columns in pair order, the referenced table, and the two actions
IsClauseOf(clause, fKey) ==
  /\ Len(clause.locals) = Len(fKey.columns)
  /\ Len(clause.foreigns) = Len(fKey.columns)
  /\ \A j \in DOMAIN fKey.columns :
       /\ clause.locals[j] = fKey.columns[j].local
       /\ clause.foreigns[j] = fKey.columns[j].foreign
  /\ clause.references = fKey.table
  /\ clause.onDelete = actionOf(fKey, "onDelete")
  /\ clause.onUpdate = actionOf(fKey, "onUpdate")

\* C24: the text generateSQLSchema returns has, in the definition of each
\* table, one FOREIGN KEY clause per foreign key of the table, in order, with
\* the local and the foreign columns in pair order and ON DELETE and ON UPDATE
\* carrying the declared action or NO ACTION; a table without foreign keys
\* gets no FOREIGN KEY clause.
C24_ForeignKeyClauses ==
  (last.op = "generateSQLSchema" /\ last.returns.returns = "string") =>
    LET defs == SelectSeq(last.returns.value, IsCreateTable)
    IN /\ Len(defs) = Len(tables)
       /\ \A i \in DOMAIN tables :
            /\ Len(defs[i].foreignKeys) = Len(foreignKeysOf(tables[i]))
            /\ \A k \in DOMAIN defs[i].foreignKeys :
                 IsClauseOf(defs[i].foreignKeys[k], foreignKeysOf(tables[i])[k])

C24_Witness ==
  /\ last.op = "generateSQLSchema"
  /\ last.returns.returns = "string"
  /\ Len(tables) = 2
  /\ LET defs == SelectSeq(last.returns.value, IsCreateTable)
     IN /\ defs[1].foreignKeys = <<>>
        /\ Len(defs[2].foreignKeys) = 2
        /\ defs[2].foreignKeys[1].locals = <<"the_level", "id">>
        /\ defs[2].foreignKeys[1].onDelete = "CASCADE"
        /\ defs[2].foreignKeys[1].onUpdate = "NO ACTION"
        /\ defs[2].foreignKeys[2].onDelete = "NO ACTION"
        /\ defs[2].foreignKeys[2].onUpdate = "SET NULL"


\* the kind of default a column declares
defaultKind(column) ==
  IF ~has(column, "default") THEN "none"
  ELSE IF column.default.type = "raw_sql" THEN "raw"
  ELSE IF column.default.value.typeof = "string" THEN "string literal"
  ELSE "other literal"

\* the column line renders the default of its column by kind
DefaultByKind(l, column) ==
  /\ defaultKind(column) = "none" => ~l.hasDefault
  /\ defaultKind(column) # "none" =>
       /\ l.hasDefault
       /\ l.default.text = column.default.value.text
       /\ l.default.quote # "" <=> defaultKind(column) = "string literal"

\* C25: in the text generateSQLSchema returns, the line of a column has no
\* DEFAULT part when the column declares no default, the value between
\* quotes when the default is a literal string, and the value as it is when
\* the default is a literal of another type or raw SQL.
C25_DefaultsByKind ==
  (last.op = "generateSQLSchema" /\ last.returns.returns = "string") =>
    LET defs == SelectSeq(last.returns.value, IsCreateTable)
    IN /\ Len(defs) = Len(tables)
       /\ \A i \in DOMAIN tables :
            /\ Len(defs[i].columns) = Len(tables[i].columns)
            /\ \A c \in DOMAIN tables[i].columns :
                 DefaultByKind(defs[i].columns[c], tables[i].columns[c])

kindsRendered(tabs) ==
  UNION {{defaultKind(tabs[i].columns[c]) : c \in DOMAIN tabs[i].columns} : i \in DOMAIN tabs}

C25_Witness ==
  /\ last.op = "generateSQLSchema"
  /\ last.returns.returns = "string"
  /\ kindsRendered(tables) = {"none", "raw", "string literal", "other literal"}


\* the CREATE TABLE statements of the text are those of the tables, in the
\* order of the registry, each with the columns of its table in order
SQLCoversTables(text, tabs) ==
  LET defs == SelectSeq(text, IsCreateTable)
  IN /\ Len(defs) = Len(tabs)
     /\ \A i \in DOMAIN tabs :
          /\ defs[i].name = tabs[i].name
          /\ Len(defs[i].columns) = Len(tabs[i].columns)
          /\ \A c \in DOMAIN tabs[i].columns :
               /\ defs[i].columns[c].name = tabs[i].columns[c].name
               /\ defs[i].columns[c].sqlName = tabs[i].columns[c].type.sqlName

\* the table types of the text are those of the tables, in the order of the
\* registry, each with one field per column of its table in order
TypeScriptCoversTables(text, tabs) ==
  LET defs == SelectSeq(text, IsTableType)
  IN /\ Len(defs) = Len(tabs)
     /\ \A i \in DOMAIN tabs :
          /\ defs[i].name = tabs[i].typeName
          /\ Len(defs[i].fields) = Len(tabs[i].columns)
          /\ \A c \in DOMAIN tabs[i].columns :
               /\ defs[i].fields[c].name = Str(toCamelCase(Chars(tabs[i].columns[c].name)))
               /\ defs[i].fields[c].typeName = tabs[i].columns[c].type.typeScriptName

\* C26: the text generateSQLSchema returns and the text generateTypeScript
\* returns each hold exactly one definition per registered table, in the
\* order the tables were added, each listing the columns of its table in
\* declared order; so the two texts cover the same tables and columns in the
\* same order.
C26_OneDefinitionPerTable ==
  /\ (last.op = "generateSQLSchema" /\ last.returns.returns = "string") =>
       /\ SQLCoversTables(last.returns.value, tables)
       /\ resultNow("generateTypeScript").returns = "string" =>
            TypeScriptCoversTables(resultNow("generateTypeScript").value, tables)
  /\ (last.op = "generateTypeScript" /\ last.returns.returns = "string") =>
       /\ TypeScriptCoversTables(last.returns.value, tables)
       /\ resultNow("generateSQLSchema").returns = "string" =>
            SQLCoversTables(resultNow("generateSQLSchema").value, tables)

C26_Witness ==
  /\ last.op = "generateTypeScript"
  /\ last.returns.returns = "string"
  /\ resultNow("generateSQLSchema").returns = "string"
  /\ Len(tables) = 2
  /\ tables[1].name = "b"
  /\ tables[2].name = "a"
  /\ Len(tables[1].columns) > 1
  /\ Len(tables[2].columns) > 2
  /\ Len(SelectSeq(last.returns.value, IsTableType)) = 2


\* the types of the columns of the registered tables
typesUsed(tabs) ==
  UNION {{tabs[i].columns[c].type : c \in DOMAIN tabs[i].columns} : i \in DOMAIN tabs}

IsCreateType(l) == l.line = "CREATE TYPE"

\* C27: whatever registry the catalog's types lead to, neither
\* generateSQLSchema nor generateTypeScript raises the error of a type that
\* is no custom type: each returns the validation errors or a text, also
\* when a registered enumeration has no values.
C27_NoUnsupportedTypeFailure ==
  /\ resultNow("generateSQLSchema").returns \in {"errors", "string"}
  /\ resultNow("generateTypeScript").returns \in {"errors", "string"}
  /\ last.op \in {"generateSQLSchema", "generateTypeScript"} =>
       /\ last.returns.returns # "throw"
       /\ last.returns.value # NotCustomType

C27_Witness ==
  /\ last.op = "generateSQLSchema"
  /\ last.returns.returns = "string"
  /\ resultNow("generateTypeScript").returns = "string"
  /\ \E ty \in typesUsed(tables) : ty.key = "UserDefinedType" /\ ty.values = <<>>
  /\ \E ty \in typesUsed(tables) : ty.key = "UserDefinedType" /\ ty.values # <<>>
  /\ \E ty \in typesUsed(tables) : ty.key # "UserDefinedType"
  /\ \E l \in Range(SelectSeq(last.returns.value, IsCreateType)) :
       l.name = "order_state" /\ l.values = <<>>


IsValuesArray(l) == l.line = "export const"

textsOf(values) == [i \in DOMAIN values |-> values[i].text]

\* the enumerations a text of generateSQLSchema declares: name and values
sqlEnums(text) ==
  LET defs == SelectSeq(text, IsCreateType)
  IN [i \in DOMAIN defs |-> [name |-> defs[i].name, values |-> textsOf(defs[i].values)]]

\* the enumerations a text of generateTypeScript declares: the name of the
\* values array and the values
tsEnums(text) ==
  LET defs == SelectSeq(text, IsValuesArray)
  IN [i \in DOMAIN defs |-> [name |-> defs[i].name, values |-> textsOf(defs[i].values)]]

\* the first column typed by an enumeration of the name, scanning the tables
\* in insertion order and the columns of a table in order
firstColumnTyped(tabs, name) ==
  LET uses == {<<i, c>> \in UNION {{<<i, c>> : c \in DOMAIN tabs[i].columns} : i \in DOMAIN tabs} :
                 /\ tabs[i].columns[c].type.key = "UserDefinedType"
                 /\ tabs[i].columns[c].type.sqlName = name}
      first == CHOOSE u \in uses :
                 \A v \in uses : u[1] < v[1] \/ (u[1] = v[1] /\ u[2] <= v[2])
  IN tabs[first[1]].columns[first[2]]

\* C28: in every state of the registry where generateSQLSchema and
\* generateTypeScript both return a text, the two texts declare the same
\* enumeration types in the same order, the order of first use, and for each
\* enumeration the same values in the same order.
C28_GeneratorsSynchronized ==
  LET sql == resultNow("generateSQLSchema")
      ts == resultNow("generateTypeScript")
  IN (sql.returns = "string" /\ ts.returns = "string") =>
       /\ Len(sqlEnums(sql.value)) = Len(tsEnums(ts.value))
       /\ \A i \in DOMAIN sqlEnums(sql.value) :
            LET first == firstColumnTyped(tables, sqlEnums(sql.value)[i].name).type
            IN /\ tsEnums(ts.value)[i].name = first.typeScriptName \o "Values"
               /\ \A j \in 1..(i - 1) :
                    sqlEnums(sql.value)[j].name # sqlEnums(sql.value)[i].name
               /\ tsEnums(ts.value)[i].values = sqlEnums(sql.value)[i].values


\* the names under which customTypes has an entry
customTypeNames == {customTypes[k].key : k \in DOMAIN customTypes}

\* the table has a column typed by an enumeration of the name
HasEnumColumn(table, name) ==
  \E c \in DOMAIN table.columns :
    /\ table.columns[c].type.key = "UserDefinedType"
    /\ table.columns[c].type.sqlName = name

\* C29: in every reachable state customTypes has an entry for a type name
\* exactly when some registered table has a column typed by an enumeration of
\* that name: a rejected table leaves no entry behind and no registered
\* enumeration column lacks one; a name has one entry only, and the entry
\* holds an enumeration of that name.
C29_CustomTypesDerived ==
  /\ \A name \in customTypeNames \cup {"level", "order_state"} :
       name \in customTypeNames <=> \E i \in DOMAIN tables : HasEnumColumn(tables[i], name)
  /\ \A k, l \in DOMAIN customTypes : customTypes[k].key = customTypes[l].key => k = l
  /\ \A k \in DOMAIN customTypes :
       /\ customTypes[k].value.key = "UserDefinedType"
       /\ customTypes[k].value.sqlName = customTypes[k].key

C29_Witness ==
  /\ last.op = "addTables"
  /\ last.threw # undefined
  /\ Len(last.list) = 2
  /\ HasEnumColumn(last.list[1], "level")
  /\ HasEnumColumn(last.list[2], "order_state")
  /\ Len(tables) = 1
  /\ tables[1].name = last.list[1].name
  /\ customTypeNames = {"level"}


Generators_p2 == {"generateSQLSchema", "generateTypeScript"}

\* the registry passes the validation the generators run first
ValidAtGeneration == validateAll_p2(tables, 1, {}) = undefined

====
